---- MODULE Spec2Model ----
(***************************************************************************)
(* Model of runtime/src/mmap.rs of dynasm-rs: the ExecutableBuffer and     *)
(* MutableBuffer wrappers around an optional memory mapping, and the       *)
(* aarch64 cache_management module.                                        *)
(*                                                                         *)
(* Region part: every buffer value the program ever creates is an entry   *)
(* of `vals`; a by-value `self` method moves its receiver (the entry       *)
(* becomes "moved") and its result is a new entry.  Every mapping handed   *)
(* out by MmapMut::map_anon is an entry of `maps`.  The owner holds one     *)
(* buffer at a time: it creates the next one after the last was dropped.   *)
(*                                                                         *)
(* Cache part: one call of cache_management::invalidate_icache_lines,      *)
(* statement by statement, against a simulated sequence of values of the   *)
(* cache-geometry register.                                                *)
(***************************************************************************)
EXTENDS Integers, Sequences, FiniteSets, TLC

\* ---------------------------------------------------------------- bounds
\* largest `size` handed to new()
MaxSize == 2
\* number of buffer values created in one behaviour
MaxVals == 6
\* mode transitions counted since a buffer's view was last set
MaxTrips == 4

VARIABLES
    vals,   \* buffer values: ExecutableBuffer / MutableBuffer structs
    maps,   \* mappings of the provider (memmap::Mmap / MmapMut)
    last,   \* the last call made and what its caller observed
    pc, slice, sim, nq, line_size, current_line_size, addr, issued, round,
    arch,   \* target_arch of the build: which cache_management is compiled
    pipe    \* the calls of invalidate_pipeline made, with what each executed

regionVars == <<vals, maps, last>>
pipeVars == <<arch, pipe>>
cacheVars == <<pc, slice, sim, nq, line_size, current_line_size, addr, issued, round,
               arch, pipe>>
vars == <<vals, maps, last, pc, slice, sim, nq, line_size,
          current_line_size, addr, issued, round, arch, pipe>>

\* the bytes written: two values tell a kept byte from a lost one
Byte == {0, 1}
Sizes == 0..MaxSize
\* arguments of set_len and offsets: one past the largest capacity is included
Lengths == 0..(MaxSize + 1)

Ids == 1..Len(vals)
Live == {v \in Ids : vals[v].st = "live"}

\* buffer: Option<Mmap>; 0 is None, m > 0 is Some(maps[m])
None == 0

\* the address the provider mapped maps[m] at: distinct mappings do not overlap
BaseAddr(m) == m * (MaxSize + 2)

\* a size() that answers with the used length
size_is_length(b) == b.length

\* ExecutableBuffer::size / MutableBuffer::size
\*   self.buffer.as_ref().map(|b| b.len()).unwrap_or(0)
size(b) == IF b.buffer = None THEN 0 ELSE Len(maps[b.buffer].data)

\* a deref that slices [..length] whether or not there is a mapping
deref_unguarded(b) ==
    IF b.length <= (IF b.buffer = None THEN 0 ELSE Len(maps[b.buffer].data))
    THEN [panic |-> FALSE,
          bytes |-> IF b.buffer = None THEN <<>>
                    ELSE SubSeq(maps[b.buffer].data, 1, b.length)]
    ELSE [panic |-> TRUE, bytes |-> <<>>]

\* Deref::deref for both types (and DerefMut::deref_mut): &map[..self.length],
\* which panics when length exceeds the mapping's length; &[] without a mapping
deref(b) ==
    IF b.buffer # None
    THEN IF b.length <= Len(maps[b.buffer].data)
         THEN [panic |-> FALSE, bytes |-> SubSeq(maps[b.buffer].data, 1, b.length)]
         ELSE [panic |-> TRUE, bytes |-> <<>>]
    ELSE [panic |-> FALSE, bytes |-> <<>>]

\* what the caller has in hand for a later comparison: the view and the length
Snapshot(b) == [n |-> b.length, cap |-> size(b), bytes |-> deref(b).bytes]

Zeros(n) == [i \in 1..n |-> 0]

\* op: the call; val: its receiver (for new/default: the value created);
\* out: "ok", "err" (an io::Error was returned) or "panic"; prov: the number of
\* calls made to the mapping provider; zero: the receiver had size() = 0;
\* res: the value returned; ic: the ranges <<mapping, length>> the call passed
\* to cache_management::invalidate_icache_lines; arg: the call's argument
\* (size, length or offset)
Observed(op, v, out, prov, zero, res) ==
    [op |-> op, val |-> v, out |-> out, prov |-> prov, zero |-> zero, res |-> res,
     ic |-> <<>>, arg |-> <<>>, bar |-> <<>>]

\* the observation of a call that takes an argument
ObservedArg(op, v, out, prov, zero, res, arg) ==
    [Observed(op, v, out, prov, zero, res) EXCEPT !.arg = <<arg>>]

\* ------------------------------------------------------------------ Init
RegionInit ==
    /\ vals = <<>>
    /\ maps = <<>>
    /\ last = Observed("none", 0, "ok", 0, FALSE, <<>>)

\* --------------------------------------------------------- buffer values
Value(ty, length, buffer, snap, trips) ==
    [ty |-> ty, st |-> "live", length |-> length, buffer |-> buffer,
     snap |-> snap, trips |-> trips]

\* a receiver that stays usable after the call (as with &self)
GoneNot(b, how) == b

\* a value that was moved out of or dropped: none of its fields can be read
Gone(b, how) ==
    [b EXCEPT !.ty = "-", !.st = "gone", !.length = 0, !.buffer = None,
              !.snap = [n |-> 0, cap |-> 0, bytes |-> <<>>], !.trips = 0]

\* transitions made since the view was last set, counted up to MaxTrips
Trip(b) == IF b.trips < MaxTrips THEN b.trips + 1 ELSE b.trips

\* a transition that does not carry the length over (as new() starts at 0)
CarriedLengthZero(b) == 0
\* length: self.length in the struct a transition returns
CarriedLength(b) == b.length

Mapping(prot, sz) == [mapped |-> TRUE, prot |-> prot, data |-> Zeros(sz)]

\* a flip that hands back fresh zeroed pages of the same size
ReprotectFresh(mp, prot) == Mapping(prot, Len(mp.data))

\* Mmap::make_mut / MmapMut::make_exec: the same pages, another protection
Reprotect(mp, prot) == [mp EXCEPT !.prot = prot]

\* munmap: the pages are gone
Unmapped(mp) == [mp EXCEPT !.mapped = FALSE, !.prot = "-", !.data = <<>>]

\* a constructor that asks the provider for a mapping whatever the size
IsEmptyRequestNever(sz) == FALSE

\* if size == 0 { None } else { Some(MmapMut::map_anon(size)?...) }
IsEmptyRequest(sz) == sz = 0

\* MutableBuffer::new(size).  ok: whether MmapMut::map_anon succeeds.
MutableBuffer_new(sz, ok) ==
    /\ Len(vals) < MaxVals
    /\ Live = {}
    /\ IF IsEmptyRequest(sz)
       THEN /\ ok
            /\ vals' = Append(vals, Value("Mutable", 0, None,
                                          [n |-> 0, cap |-> 0, bytes |-> <<>>], 0))
            /\ maps' = maps
            /\ last' = ObservedArg("new", Len(vals) + 1, "ok", 0, TRUE, <<>>, sz)
       ELSE IF ok
            THEN /\ maps' = Append(maps, Mapping("W", sz))
                 /\ vals' = Append(vals, Value("Mutable", 0, Len(maps) + 1,
                                               [n |-> 0, cap |-> sz, bytes |-> <<>>], 0))
                 /\ last' = ObservedArg("new", Len(vals) + 1, "ok", 1, FALSE, <<>>, sz)
            ELSE /\ UNCHANGED <<vals, maps>>
                 /\ last' = ObservedArg("new", 0, "err", 1, FALSE, <<>>, sz)
    /\ UNCHANGED cacheVars

\* ExecutableBuffer::new(size): MmapMut::map_anon(size)?.make_exec()?
\* ok1: map_anon succeeds; ok2: the mapping's make_exec succeeds.
ExecutableBuffer_new(sz, ok1, ok2) ==
    /\ Len(vals) < MaxVals
    /\ Live = {}
    /\ IF IsEmptyRequest(sz)
       THEN /\ ok1 /\ ok2
            /\ vals' = Append(vals, Value("Executable", 0, None,
                                          [n |-> 0, cap |-> 0, bytes |-> <<>>], 0))
            /\ maps' = maps
            /\ last' = ObservedArg("new", Len(vals) + 1, "ok", 0, TRUE, <<>>, sz)
       ELSE IF ok1 /\ ok2
            THEN /\ maps' = Append(maps, Mapping("X", sz))
                 /\ vals' = Append(vals, Value("Executable", 0, Len(maps) + 1,
                                               [n |-> 0, cap |-> sz, bytes |-> <<>>], 0))
                 /\ last' = ObservedArg("new", Len(vals) + 1, "ok", 2, FALSE, <<>>, sz)
            ELSE /\ ok1 => ~ok2
                 /\ ~ok1 => ok2
                 /\ UNCHANGED <<vals, maps>>
                 /\ last' = ObservedArg("new", 0, "err", IF ok1 THEN 2 ELSE 1, FALSE, <<>>, sz)
    /\ UNCHANGED cacheVars

\* Default::default for ExecutableBuffer and MutableBuffer
Default_default(ty) ==
    /\ Len(vals) < MaxVals
    /\ Live = {}
    /\ vals' = Append(vals, Value(ty, 0, None, [n |-> 0, cap |-> 0, bytes |-> <<>>], 0))
    /\ last' = Observed("default", Len(vals) + 1, "ok", 0, TRUE, <<>>)
    /\ UNCHANGED maps
    /\ UNCHANGED cacheVars

\* MutableBuffer::set_len(&mut self, length): self.length = length
MutableBuffer_set_len(v, n) ==
    /\ v \in Live
    /\ vals[v].ty = "Mutable"
    /\ LET b == [vals[v] EXCEPT !.length = n]
       IN  vals' = [vals EXCEPT ![v] = [b EXCEPT !.snap = Snapshot(b), !.trips = 0]]
    /\ last' = ObservedArg("set_len", v, "ok", 0, size(vals[v]) = 0, <<>>, n)
    /\ UNCHANGED maps
    /\ UNCHANGED cacheVars

\* MutableBuffer::make_exec(self).  ok: whether the mapping's make_exec succeeds.
\* `self` is taken by value: the receiver is moved whatever the outcome.  On
\* Err the `?` returns the io::Error alone; the mapping was moved into the
\* provider call and is not handed back, so it is released.
MutableBuffer_make_exec(v, ok) ==
    /\ v \in Live
    /\ vals[v].ty = "Mutable"
    /\ Len(vals) < MaxVals
    /\ LET b == vals[v]
           m == b.buffer
       IN  IF m = None
           THEN /\ ok
                /\ vals' = Append([vals EXCEPT ![v] = Gone(b, "moved")],
                                  Value("Executable", CarriedLength(b), None, b.snap, Trip(b)))
                /\ maps' = maps
                /\ last' = Observed("make_exec", v, "ok", 0, TRUE, <<>>)
           ELSE IF ok
                THEN /\ maps' = [maps EXCEPT ![m] = Reprotect(maps[m], "X")]
                     /\ vals' = Append([vals EXCEPT ![v] = Gone(b, "moved")],
                                       Value("Executable", CarriedLength(b), m, b.snap, Trip(b)))
                     /\ last' = Observed("make_exec", v, "ok", 1, FALSE, <<>>)
                ELSE /\ maps' = [maps EXCEPT ![m] = Unmapped(maps[m])]
                     /\ vals' = [vals EXCEPT ![v] = Gone(b, "dropped")]
                     /\ last' = Observed("make_exec", v, "err", 1, FALSE, <<>>)
    /\ UNCHANGED cacheVars

\* ExecutableBuffer::make_mut(self).  ok: whether the mapping's make_mut succeeds.
ExecutableBuffer_make_mut(v, ok) ==
    /\ v \in Live
    /\ vals[v].ty = "Executable"
    /\ Len(vals) < MaxVals
    /\ LET b == vals[v]
           m == b.buffer
       IN  IF m = None
           THEN /\ ok
                /\ vals' = Append([vals EXCEPT ![v] = Gone(b, "moved")],
                                  Value("Mutable", CarriedLength(b), None, b.snap, Trip(b)))
                /\ maps' = maps
                /\ last' = Observed("make_mut", v, "ok", 0, TRUE, <<>>)
           ELSE IF ok
                THEN /\ maps' = [maps EXCEPT ![m] = Reprotect(maps[m], "W")]
                     /\ vals' = Append([vals EXCEPT ![v] = Gone(b, "moved")],
                                       Value("Mutable", CarriedLength(b), m, b.snap, Trip(b)))
                     /\ last' = Observed("make_mut", v, "ok", 1, FALSE, <<>>)
                ELSE /\ maps' = [maps EXCEPT ![m] = Unmapped(maps[m])]
                     /\ vals' = [vals EXCEPT ![v] = Gone(b, "dropped")]
                     /\ last' = Observed("make_mut", v, "err", 1, FALSE, <<>>)
    /\ UNCHANGED cacheVars

\* the owner lets go of a value: Option<Mmap> / Option<MmapMut> unmaps on drop
Drop(v) ==
    /\ v \in Live
    /\ vals' = [vals EXCEPT ![v] = Gone(vals[v], "dropped")]
    /\ maps' = IF vals[v].buffer = None THEN maps
               ELSE [maps EXCEPT ![vals[v].buffer] = Unmapped(maps[vals[v].buffer])]
    /\ last' = Observed("drop", v, "ok", IF vals[v].buffer = None THEN 0 ELSE 1,
                        size(vals[v]) = 0, <<>>)
    /\ UNCHANGED cacheVars

\* ExecutableBuffer::size(&self) / MutableBuffer::size(&self)
Buffer_size(v) ==
    /\ v \in Live
    /\ last' = Observed("size", v, "ok", 0, size(vals[v]) = 0, <<size(vals[v])>>)
    /\ UNCHANGED <<vals, maps>>
    /\ UNCHANGED cacheVars

\* Deref::deref(&self) on either type: the caller obtains the view
Buffer_deref(v) ==
    /\ v \in Live
    /\ LET d == deref(vals[v])
       IN  last' = Observed("deref", v, IF d.panic THEN "panic" ELSE "ok", 0,
                            size(vals[v]) = 0, d.bytes)
    /\ UNCHANGED <<vals, maps>>
    /\ UNCHANGED cacheVars

\* DerefMut::deref_mut(&mut self): exists for MutableBuffer only
MutableBuffer_deref_mut(v) ==
    /\ v \in Live
    /\ vals[v].ty = "Mutable"
    /\ LET d == deref(vals[v])
       IN  last' = Observed("deref_mut", v, IF d.panic THEN "panic" ELSE "ok", 0,
                            size(vals[v]) = 0, d.bytes)
    /\ UNCHANGED <<vals, maps>>
    /\ UNCHANGED cacheVars

\* buf[i] = byte through DerefMut: the store lands in the mapping; the index
\* is checked against the view, not against the mapping
MutableBuffer_write(v, i, byte) ==
    /\ v \in Live
    /\ vals[v].ty = "Mutable"
    /\ LET b == vals[v]
           d == deref(b)
       IN  IF d.panic \/ i >= Len(d.bytes)
           THEN /\ last' = ObservedArg("write", v, "panic", 0, size(b) = 0, <<>>, i)
                /\ UNCHANGED <<vals, maps>>
           ELSE /\ maps' = [maps EXCEPT ![b.buffer].data[i + 1] = byte]
                /\ vals' = [vals EXCEPT ![v].trips = 0,
                              ![v].snap = [n |-> b.length, cap |-> size(b),
                                           bytes |-> [d.bytes EXCEPT ![i + 1] = byte]]]
                /\ last' = ObservedArg("write", v, "ok", 0, size(b) = 0, <<>>, i)
    /\ UNCHANGED cacheVars

\* a pointer to the start of the view, whatever the offset
PtrAddrBase(b, offset) == BaseAddr(b.buffer)

\* &self[offset.0] as *const u8: the address of element offset of the view
PtrAddr(b, offset) == BaseAddr(b.buffer) + offset

\* ExecutableBuffer::ptr(&self, offset): &self[offset.0] as *const u8
ExecutableBuffer_ptr(v, offset) ==
    /\ v \in Live
    /\ vals[v].ty = "Executable"
    /\ LET b == vals[v]
           d == deref(b)
       IN  IF d.panic \/ offset >= Len(d.bytes)
           THEN last' = ObservedArg("ptr", v, "panic", 0, size(b) = 0, <<>>, offset)
           ELSE last' = ObservedArg("ptr", v, "ok", 0, size(b) = 0,
                                    <<PtrAddr(b, offset)>>, offset)
    /\ UNCHANGED <<vals, maps>>
    /\ UNCHANGED cacheVars

\* a caller passes a buffer's view to cache_management::invalidate_icache_lines
\* (a pub fn of the module; nothing in this file calls it)
Call_invalidate_icache_lines(v) ==
    /\ v \in Live
    /\ ~deref(vals[v]).panic
    /\ last' = [Observed("invalidate_icache_lines", v, "ok", 0, size(vals[v]) = 0, <<>>)
                 EXCEPT !.ic = <<<<vals[v].buffer, Len(deref(vals[v]).bytes)>>>>]
    /\ UNCHANGED <<vals, maps>>
    /\ UNCHANGED cacheVars

\* a routine that runs the instruction barrier before the data barrier
PipelineInsnsSwapped == <<"isb sy", "dsb ish">>

\* static INVALIDATE_PIPELINE: the instructions before its `ret`
PipelineInsns == <<"dsb ish", "isb sy">>

\* what one call of cache_management::invalidate_pipeline executes: the routine
\* on aarch64, nothing elsewhere (pub fn invalidate_pipeline() {})
PipelineCall == IF arch = "aarch64" THEN PipelineInsns ELSE <<>>

\* a caller calls cache_management::invalidate_pipeline
\* (a pub fn of the module; nothing in this file calls it)
Call_invalidate_pipeline ==
    /\ last' = [Observed("invalidate_pipeline", 0, "ok", 0, FALSE, <<>>)
                 EXCEPT !.bar = PipelineCall]
    /\ UNCHANGED <<vals, maps>>
    /\ UNCHANGED cacheVars

Next ==
    \/ \E sz \in Sizes, ok \in BOOLEAN : MutableBuffer_new(sz, ok)
    \/ \E sz \in Sizes, ok1, ok2 \in BOOLEAN : ExecutableBuffer_new(sz, ok1, ok2)
    \/ \E ty \in {"Mutable", "Executable"} : Default_default(ty)
    \/ \E v \in Ids, n \in Lengths : MutableBuffer_set_len(v, n)
    \/ \E v \in Ids, ok \in BOOLEAN : MutableBuffer_make_exec(v, ok)
    \/ \E v \in Ids, ok \in BOOLEAN : ExecutableBuffer_make_mut(v, ok)
    \/ \E v \in Ids : Drop(v)
    \/ \E v \in Ids : Buffer_size(v)
    \/ \E v \in Ids : Buffer_deref(v)
    \/ \E v \in Ids : MutableBuffer_deref_mut(v)
    \/ \E v \in Ids, i \in Lengths, byte \in Byte : MutableBuffer_write(v, i, byte)
    \/ \E v \in Ids, offset \in Lengths : ExecutableBuffer_ptr(v, offset)
    \/ \E v \in Ids : Call_invalidate_icache_lines(v)
    \/ Call_invalidate_pipeline

\* ------------------------------------------------------ cache_management
\* (the aarch64 module)
\* largest value of the register's line-size field that a core reports
MaxK == 2
\* largest start address of a slice
MaxStart == 5
\* largest length of a slice
MaxLen == 12
\* calls of invalidate_pipeline made in one behaviour
MaxPipeCalls == 2

\* let mut current_line_size = 0xFFFFFFFF; the largest integer TLC represents
\* stands for it: it is only compared, with `>`, against line sizes <= 4 << 15
NoLineSize == 2147483647

RECURSIVE Pow2(_)
Pow2(n) == IF n = 0 THEN 1 ELSE 2 * Pow2(n - 1)

\* a & !m on unsigned integers, bit by bit
RECURSIVE AndNot(_, _)
AndNot(a, m) ==
    IF a = 0 THEN 0
    ELSE 2 * AndNot(a \div 2, m \div 2) + (IF m % 2 = 1 THEN 0 ELSE a % 2)

\* get_cacheline_size: 4 << (get_cacheline_size_internal() & 0xF)
get_cacheline_size(ctr) == 4 * Pow2(ctr % 16)

\* register values whose low four bits are k; the higher bits hold other fields
Ctr(k) == 16 * (k + 1) + k
CtrValues == {Ctr(k) : k \in 0..MaxK}
LineSizes == {get_cacheline_size(c) : c \in CtrValues}

\* one more query than there are line sizes: no call makes more
SimLen == Cardinality(LineSizes) + 1

\* the register value the next query reads (the last one again, were the
\* simulated sequence ever used up)
NextCtr == sim[IF nq < Len(sim) THEN nq + 1 ELSE Len(sim)]

\* the fast path's address: (slice.as_ptr() as usize) & !3
FastAddr(start_addr) == AndNot(start_addr, 3)

\* a sweep that starts at the slice's own address: no alignment
AlignDownNot(start_addr, ls) == start_addr

\* start_addr & !(line_size - 1)
AlignDown(start_addr, ls) == AndNot(start_addr, ls - 1)

\* a loop that runs again whenever the size differs, larger sizes included
LoopCondNeq(cur, ls) == cur # ls

\* a loop that also runs again when the size is unchanged
LoopCondGeq(cur, ls) == cur >= ls

\* while current_line_size > line_size
LoopCond(cur, ls) == cur > ls

\* a fast path for slices shorter than one instruction only
IsSmallLt(len) == len < 4

\* if slice.len() <= 4
IsSmall(len) == len <= 4

\* a sweep that advances by one instruction instead of one line
NextAddrWord(a, ls) == a + 4

\* addr += line_size
NextAddr(a, ls) == a + ls

start_addr == slice[1]
end_addr == slice[1] + slice[2]

\* invalidate_cacheline(a): `ic ivau` for address a, logged with the sweep it
\* belongs to (0: the fast path) and the line size of that sweep
Invalidate(a) == Append(issued, [round |-> round, addr |-> a, ls |-> line_size])

\* if slice.len() <= 4 { invalidate_cacheline(ptr & !3); return; }
Fast ==
    /\ arch = "aarch64"
    /\ pc = "entry"
    /\ IsSmall(slice[2])
    /\ issued' = Invalidate(FastAddr(start_addr))
    /\ pc' = "done"
    /\ UNCHANGED <<slice, sim, nq, line_size, current_line_size, addr, round>>
    /\ UNCHANGED regionVars
    /\ UNCHANGED pipeVars

\* let mut line_size = get_cacheline_size(); let mut current_line_size = 0xFFFFFFFF;
Begin ==
    /\ arch = "aarch64"
    /\ pc = "entry"
    /\ ~IsSmall(slice[2])
    /\ line_size' = get_cacheline_size(NextCtr)
    /\ nq' = nq + 1
    /\ current_line_size' = NoLineSize
    /\ pc' = "while"
    /\ UNCHANGED <<slice, sim, addr, issued, round>>
    /\ UNCHANGED regionVars
    /\ UNCHANGED pipeVars

\* while current_line_size > line_size { current_line_size = line_size;
\*     let mut addr = start_addr & !(line_size - 1);
LoopEnter ==
    /\ pc = "while"
    /\ LoopCond(current_line_size, line_size)
    /\ current_line_size' = line_size
    /\ addr' = AlignDown(start_addr, line_size)
    /\ round' = round + 1
    /\ pc' = "sweep"
    /\ UNCHANGED <<slice, sim, nq, line_size, issued>>
    /\ UNCHANGED regionVars
    /\ UNCHANGED pipeVars

\* the while condition is false: the function returns
LoopExit ==
    /\ pc = "while"
    /\ ~LoopCond(current_line_size, line_size)
    /\ pc' = "done"
    /\ UNCHANGED <<slice, sim, nq, line_size, current_line_size, addr, issued, round>>
    /\ UNCHANGED regionVars
    /\ UNCHANGED pipeVars

\* while addr < end_addr { invalidate_cacheline(addr); addr += line_size; }
SweepStep ==
    /\ pc = "sweep"
    /\ addr < end_addr
    /\ issued' = Invalidate(addr)
    /\ addr' = NextAddr(addr, line_size)
    /\ UNCHANGED <<pc, slice, sim, nq, line_size, current_line_size, round>>
    /\ UNCHANGED regionVars
    /\ UNCHANGED pipeVars

\* line_size = get_cacheline_size(); and back to the while condition
Requery ==
    /\ pc = "sweep"
    /\ ~(addr < end_addr)
    /\ line_size' = get_cacheline_size(NextCtr)
    /\ nq' = nq + 1
    /\ pc' = "while"
    /\ UNCHANGED <<slice, sim, current_line_size, addr, issued, round>>
    /\ UNCHANGED regionVars
    /\ UNCHANGED pipeVars

\* the not(target_arch = "aarch64") module:
\* pub fn invalidate_icache_lines(_slice: &[u8]) {}
invalidate_icache_lines_noop ==
    /\ arch # "aarch64"
    /\ pc = "entry"
    /\ pc' = "done"
    /\ UNCHANGED <<slice, sim, nq, line_size, current_line_size, addr, issued, round>>
    /\ UNCHANGED regionVars
    /\ UNCHANGED pipeVars

\* one call of invalidate_pipeline, as `pipe` records it: where the caller
\* stood, how many line invalidations had been issued, what the call executed
PipeCall(insns) == [at |-> pc, after |-> Len(issued), insns |-> insns]

\* the caller is single-threaded: it calls before or after the call of
\* invalidate_icache_lines, not during it
BetweenCalls == pc \in {"entry", "done"}

\* aarch64: invalidate_pipeline_internal(), i.e. dsb ish; isb sy; ret
invalidate_pipeline ==
    /\ arch = "aarch64"
    /\ BetweenCalls
    /\ Len(pipe) < MaxPipeCalls
    /\ pipe' = Append(pipe, PipeCall(PipelineInsns))
    /\ UNCHANGED <<pc, slice, sim, nq, line_size, current_line_size, addr, issued, round>>
    /\ UNCHANGED <<arch>>
    /\ UNCHANGED regionVars

\* the not(target_arch = "aarch64") module: pub fn invalidate_pipeline() {}
invalidate_pipeline_noop ==
    /\ arch # "aarch64"
    /\ BetweenCalls
    /\ Len(pipe) < MaxPipeCalls
    /\ pipe' = Append(pipe, PipeCall(<<>>))
    /\ UNCHANGED <<pc, slice, sim, nq, line_size, current_line_size, addr, issued, round>>
    /\ UNCHANGED <<arch>>
    /\ UNCHANGED regionVars

CacheIdle ==
    /\ pc = "idle" /\ slice = <<0, 0>> /\ sim = <<>> /\ nq = 0 /\ line_size = 0
    /\ current_line_size = 0 /\ addr = 0 /\ issued = <<>> /\ round = 0
    /\ arch = "aarch64" /\ pipe = <<>>

\* one call of invalidate_icache_lines(slice), for every slice and every
\* sequence of register values the queries may read
CacheInit ==
    /\ pc = "entry"
    /\ slice \in (0..MaxStart) \X (0..MaxLen)
    /\ sim \in [1..SimLen -> CtrValues]
    /\ nq = 0 /\ line_size = 0 /\ current_line_size = 0 /\ addr = 0
    /\ issued = <<>> /\ round = 0
    /\ arch = "aarch64" /\ pipe = <<>>

CacheNext == Fast \/ Begin \/ LoopEnter \/ LoopExit \/ SweepStep \/ Requery

\* the buffers, with no cache call in progress
Init == RegionInit /\ CacheIdle
Spec == Init /\ [][Next]_vars

\* one call of invalidate_icache_lines
CacheSpecInit == RegionInit /\ CacheInit
CacheSpec == CacheSpecInit /\ [][CacheNext]_vars
\* the call runs on a thread that is scheduled: a step that can be taken is taken
FairCacheSpec == CacheSpecInit /\ [][CacheNext]_vars /\ WF_vars(CacheNext)

\* either build of cache_management: one call of invalidate_icache_lines, and
\* calls of invalidate_pipeline before and after it
PipeInit ==
    /\ vals = <<>> /\ maps = <<>>
    /\ last = Observed("none", 0, "ok", 0, FALSE, <<>>)
    /\ pc = "entry"
    /\ slice \in (0..MaxStart) \X (0..MaxLen)
    /\ sim \in [1..SimLen -> CtrValues]
    /\ nq = 0 /\ line_size = 0 /\ current_line_size = 0 /\ addr = 0
    /\ issued = <<>> /\ round = 0
    /\ arch \in {"aarch64", "other"} /\ pipe = <<>>

PipeNext ==
    \/ Fast \/ Begin \/ LoopEnter \/ LoopExit \/ SweepStep \/ Requery
    \/ invalidate_icache_lines_noop
    \/ invalidate_pipeline
    \/ invalidate_pipeline_noop

PipeSpec == PipeInit /\ [][PipeNext]_vars

\* ================================================================ claims
\* the value a successful new / default / transition returned
Returned == vals[Len(vals)]
Transitions == {"make_exec", "make_mut"}

\* C1: when the provider denies the protection flip of a backed buffer
\* (make_exec, make_mut), the caller observes the failure and still owns the
\* original buffer: it is usable and its mapping is not released.
C1_DeniedFlipKeepsRegion ==
    (last.op \in Transitions /\ last.out = "err") =>
        /\ vals[last.val].st = "live"
        /\ vals[last.val].buffer # None
        /\ maps[vals[last.val].buffer].mapped

\* C2: every successful make_exec of a backed buffer has passed the view
\* [0, length) of that buffer to invalidate_icache_lines before it returns.
C2_MakeExecInvalidates ==
    (last.op = "make_exec" /\ last.out = "ok" /\ Returned.buffer # None) =>
        last.ic = <<<<Returned.buffer, Returned.length>>>>

\* C6: bytes B of length n <= capacity written into a Mutable buffer with
\* set_len(n) are the view, and n the length, of the Mutable buffer that any
\* number of successful make_exec / make_mut round trips gives back.
C6_RoundTrip ==
    \A v \in Live :
        (vals[v].ty = "Mutable" /\ vals[v].trips >= 2
            /\ vals[v].snap.n <= vals[v].snap.cap) =>
            /\ ~deref(vals[v]).panic
            /\ deref(vals[v]).bytes = vals[v].snap.bytes
            /\ vals[v].length = vals[v].snap.n
            /\ Len(deref(vals[v]).bytes) = vals[v].snap.n

\* C6 witness: two round trips after a byte 1 was written: the view is not empty
C6_Witness ==
    \E v \in Live :
        /\ vals[v].ty = "Mutable" /\ vals[v].trips >= 4
        /\ vals[v].snap.n > 0 /\ vals[v].snap.n <= vals[v].snap.cap
        /\ \E i \in 1..Len(vals[v].snap.bytes) : vals[v].snap.bytes[i] = 1

\* the operations C7 lists, and those of them that succeed on an empty buffer
ZeroCapOpsClaimed ==
    {"size", "deref", "deref_mut", "set_len", "ptr", "make_exec", "make_mut"}
ZeroCapOps == ZeroCapOpsClaimed \ {"ptr"}

\* C7 as stated: every listed operation on a buffer of size 0, ptr included,
\* succeeds and makes no call to the mapping provider.
C7_ZeroCapAllSucceed ==
    (last.zero /\ last.op \in ZeroCapOpsClaimed) => (last.out = "ok" /\ last.prov = 0)

\* C7 amended: size, deref, deref_mut, set_len, make_exec and make_mut on a
\* buffer of size 0 succeed and make no call to the mapping provider; ptr is
\* not among them (the view is empty, so it panics for every offset).
C7_ZeroCapOps ==
    /\ (last.zero /\ last.op \in ZeroCapOps) => (last.out = "ok" /\ last.prov = 0)
    /\ (last.zero /\ last.op = "ptr") => last.out = "panic"

\* C7 witness: a transition of an empty buffer on which set_len was called
C7_Witness ==
    /\ last.zero /\ last.op = "make_mut" /\ last.out = "ok"
    /\ Returned.length > 0

\* C8: every mapping that is mapped is owned by exactly one live buffer, whose
\* type agrees with the mapping's protection; a released mapping is owned by
\* none; deref_mut and stores are made through a Mutable buffer only and ptr
\* through an Executable one; the receiver of a transition is gone after it.
C8_WXExclusive ==
    /\ \A m \in 1..Len(maps) :
          LET owners == {v \in Live : vals[v].buffer = m}
          IN  IF maps[m].mapped
              THEN /\ Cardinality(owners) = 1
                   /\ \A v \in owners :
                         maps[m].prot = (IF vals[v].ty = "Mutable" THEN "W" ELSE "X")
              ELSE owners = {}
    /\ last.op \in {"deref_mut", "write", "set_len"} => vals[last.val].ty = "Mutable"
    /\ last.op = "ptr" => vals[last.val].ty = "Executable"
    /\ last.op \in Transitions => vals[last.val].st = "gone"

\* C8 witness: a mapping that went to Executable and came back, after a failed
\* transition released an earlier one
C8_Witness ==
    /\ last.op = "make_mut" /\ last.out = "ok" /\ Returned.buffer # None
    /\ \E m \in 1..Len(maps) : ~maps[m].mapped

\* C9: in every state, the length of a buffer is at most its size.
C9_LengthWithinCapacity ==
    \A v \in Live : vals[v].length <= size(vals[v])

\* C10: in every state, the view of a buffer of either type has exactly
\* `length` bytes.
C10_ViewLengthIsUsedLength ==
    \A v \in Live :
        ~deref(vals[v]).panic /\ Len(deref(vals[v]).bytes) = vals[v].length

\* ------------------------------------------------- claims: cache_management
\* the index of the line of size ls that holds address a
Line(a, ls) == a \div ls

\* the lines of size ls that overlap [lo, hi)
LinesOverlapping(lo, hi, ls) ==
    {ln \in 0..(hi \div ls) : ln * ls < hi /\ (ln + 1) * ls > lo}

\* the lines of size ls an invalidation was issued for
IssuedLines(ls) == {Line(issued[i].addr, ls) : i \in 1..Len(issued)}

\* the addresses one sweep of the general path issues for [lo, hi) with line
\* size ls: addr = lo & !(ls - 1); while addr < hi { ...; addr += ls }
RECURSIVE SweepFrom(_, _, _)
SweepFrom(a, hi, ls) ==
    IF a < hi THEN {a} \cup SweepFrom(NextAddr(a, ls), hi, ls) ELSE {}
SweepAddrs(lo, hi, ls) == SweepFrom(AlignDown(lo, ls), hi, ls)

GeneralPath == ~IsSmall(slice[2])
Returned_ic == pc = "done"
SizeOf(i) == get_cacheline_size(sim[i])
Decreases == \E i \in 1..(Len(sim) - 1) : SizeOf(i + 1) < SizeOf(i)

\* C3: for a slice of 1..=4 bytes at any address and any line size, the lines
\* the fast path invalidates include every line the general sweep would
\* invalidate for the same slice.
C3_FastPathCoversSweep ==
    (Returned_ic /\ slice[2] \in 1..4) =>
        \A ls \in LineSizes :
            {Line(a, ls) : a \in SweepAddrs(start_addr, end_addr, ls)} \subseteq IssuedLines(ls)

\* C4 as stated: given a simulated sequence of line sizes that decreases at
\* least once, a call on a slice longer than 4 bytes has, when it returns,
\* issued an invalidation for every line overlapping the slice, for every
\* size in the sequence.
C4_CoversWholeSequence ==
    (Returned_ic /\ GeneralPath /\ Decreases) =>
        \A i \in 1..Len(sim) :
            LinesOverlapping(start_addr, end_addr, SizeOf(i)) \subseteq IssuedLines(SizeOf(i))

\* C4 amended: the same for every size of the sequence that a query returned
\* during the call, that is up to and including the first re-query that is
\* not smaller than the size just used.
C4_CoversQueriedSizes ==
    (Returned_ic /\ GeneralPath /\ Decreases) =>
        \A i \in 1..nq :
            LinesOverlapping(start_addr, end_addr, SizeOf(i)) \subseteq IssuedLines(SizeOf(i))

\* C4 witness: the call swept twice, the second time with a smaller size, over
\* a slice that is not aligned and spans several lines
C4_Witness ==
    /\ Returned_ic /\ GeneralPath /\ round >= 2 /\ nq >= 3
    /\ start_addr % 4 # 0
    /\ Cardinality(LinesOverlapping(start_addr, end_addr, SizeOf(1))) >= 2

\* C5: invalidate_icache_lines returns, whatever the slice and whatever the
\* sequence of line sizes the queries return, and sweeps at most once per
\* distinct line size.
C5_Terminates ==
    /\ [](round <= Cardinality(LineSizes))
    /\ <>(pc = "done")

\* C5 witness: a call that returned after as many sweeps as there are sizes
C5_Witness ==
    /\ Returned_ic /\ GeneralPath
    /\ round = Cardinality(LineSizes)
    /\ Len(issued) > round

\* ------------------------------------------------- claims: buffers, part 2
\* the byte the memory holds at address a, read through the mapping that is
\* mapped there
MemAt(a) ==
    LET m == CHOOSE k \in 1..Len(maps) :
                 maps[k].mapped /\ BaseAddr(k) <= a /\ a < BaseAddr(k) + Len(maps[k].data)
    IN  maps[m].data[a - BaseAddr(m) + 1]

\* C11: set_len(n) with n above the capacity panics at once, ptr and indexed
\* view accesses at an offset >= length panic, and no call succeeds on a
\* buffer whose length is above its capacity.
C11_FailFast ==
    /\ (last.op = "set_len" /\ last.arg[1] > size(vals[last.val])) => last.out = "panic"
    /\ (last.op \in {"ptr", "write"} /\ last.arg[1] >= vals[last.val].length)
          => last.out = "panic"
    /\ \A v \in Live :
          (last.val = v /\ vals[v].length > size(vals[v])) => last.out # "ok"

\* C12: a successful new(s) returns a buffer with size() = s and length 0;
\* for s = 0 no call is made to the mapping provider and the view is empty;
\* when the provider denies the request an error is returned, no buffer is
\* produced and no mapping is left mapped.
C12_New ==
    /\ (last.op = "new" /\ last.out = "ok") =>
          /\ last.val = Len(vals) /\ Returned.st = "live"
          /\ size(Returned) = last.arg[1]
          /\ Returned.length = 0
          /\ ~deref(Returned).panic /\ deref(Returned).bytes = <<>>
          /\ (last.arg[1] = 0) => (last.prov = 0 /\ Returned.buffer = None)
    /\ (last.op = "new" /\ last.out = "err") =>
          /\ last.arg[1] > 0 /\ last.prov > 0
          /\ Live = {}
          /\ \A m \in 1..Len(maps) : ~maps[m].mapped

\* C12 witness: new(MaxSize) succeeded after an earlier new was denied
C12_Witness ==
    /\ last.op = "new" /\ last.out = "ok" /\ last.arg = <<MaxSize>>
    /\ Returned.ty = "Executable"

\* C13: on an Executable buffer with a mapping, ptr(offset) returns, for every
\* offset < length, the mapping's base address plus offset, and the byte at
\* that address is the byte written at that offset before make_exec.
C13_PtrIsBasePlusOffset ==
    (last.op = "ptr" /\ vals[last.val].buffer # None
        /\ last.arg[1] < vals[last.val].length) =>
        /\ last.out = "ok"
        /\ last.res = <<BaseAddr(vals[last.val].buffer) + last.arg[1]>>
        /\ MemAt(last.res[1]) = vals[last.val].snap.bytes[last.arg[1] + 1]

\* C14: in every state, a live buffer of either type has no mapping if and
\* only if its size is 0, and a mapping it has is mapped.
C14_BackingIffCapacity ==
    \A v \in Live :
        /\ (vals[v].buffer = None) <=> (size(vals[v]) = 0)
        /\ vals[v].buffer # None => maps[vals[v].buffer].mapped

\* C14 witness: a buffer with a mapping and one without, both after make_mut
C14_Witness ==
    /\ last.op = "make_mut" /\ last.out = "ok"
    /\ Returned.buffer = None /\ Returned.length > 0
    /\ \E m \in 1..Len(maps) : ~maps[m].mapped

\* a step that is a successful make_exec or make_mut
TransitionStep ==
    /\ Len(vals') = Len(vals) + 1
    /\ last'.op \in Transitions /\ last'.out = "ok"

\* C19: a successful make_exec or make_mut changes the type only: length,
\* size(), the presence of the mapping and the bytes are those of the
\* receiver, and make_mut passes nothing to the cache management.
C19_TransitionFrame ==
    [][TransitionStep =>
        LET old == vals[last'.val]
            new == vals'[Len(vals')]
        IN  /\ new.ty # old.ty
            /\ new.length = old.length
            /\ new.buffer = old.buffer
            /\ new.buffer # None =>
                  /\ maps'[new.buffer].mapped
                  /\ maps'[new.buffer].data = maps[old.buffer].data
            /\ Len(maps') = Len(maps)
            /\ last'.op = "make_mut" => last'.ic = <<>>]_vars

\* C19 witness: a make_mut of a buffer whose mapping holds a byte 1
C19_Witness ==
    /\ last.op = "make_mut" /\ last.out = "ok" /\ Returned.buffer # None
    /\ Returned.length > 0 /\ Returned.length < size(Returned)
    /\ \E i \in 1..size(Returned) : maps[Returned.buffer].data[i] = 1

\* ----------------------------------------- claims: cache_management, part 2
\* the invalidations sweep r issued, in order
SweepLog(r) == SelectSeq(issued, LAMBDA e : e.round = r)
\* the sweeps that have run to their end
SweepsDone == {r \in 1..round : r < round \/ pc \in {"while", "done"}}
\* a rounded down to a multiple of n
Floor(a, n) == a - (a % n)

\* C17: in the general path at least one sweep is made; the size is queried
\* again after each sweep; sweep r + 1 is made if and only if the size
\* queried after sweep r is strictly smaller than the size sweep r used; so
\* the sizes of successive sweeps strictly decrease and the call returns on
\* the first re-query that is not smaller.
C17_SweepWhileShrinking ==
    /\ (GeneralPath /\ pc \in {"while", "sweep", "done"}) =>
          /\ \A r \in 1..round :
                /\ \A i \in 1..Len(SweepLog(r)) : SweepLog(r)[i].ls = SizeOf(r)
                /\ r > 1 => SizeOf(r) < SizeOf(r - 1)
          /\ \A r \in SweepsDone : Len(SweepLog(r)) >= 1
          /\ nq = (IF pc = "sweep" THEN round ELSE round + 1)
    /\ (Returned_ic /\ GeneralPath) =>
          /\ round >= 1
          /\ nq = round + 1
          /\ SizeOf(nq) >= SizeOf(round)

\* C17 witness: a call that returned on a re-query larger than the size of its
\* second sweep
C17_Witness ==
    /\ Returned_ic /\ GeneralPath /\ round = 2
    /\ SizeOf(3) > SizeOf(2)

\* C18: a sweep with line size L over a slice [start, end) longer than 4 bytes
\* issues exactly the addresses (start rounded down to a multiple of L) + k*L
\* below end, each once and in ascending order: every line of size L that
\* overlaps the slice is invalidated once and no other line is touched.
C18_SweepExactlyOncePerLine ==
    \A r \in SweepsDone :
        LET log == SweepLog(r)
            L == SizeOf(r)
            first == Floor(start_addr, L)
        IN  /\ \A i \in 1..Len(log) : log[i].addr = first + (i - 1) * L
            /\ first + (Len(log) - 1) * L < end_addr
            /\ first + Len(log) * L >= end_addr
            /\ {Line(log[i].addr, L) : i \in 1..Len(log)}
                  = LinesOverlapping(start_addr, end_addr, L)
            /\ Cardinality(LinesOverlapping(start_addr, end_addr, L)) = Len(log)

\* C18 witness: a finished sweep over three lines from an unaligned start
C18_Witness ==
    /\ Returned_ic /\ start_addr % 4 # 0
    /\ \E r \in SweepsDone : Len(SweepLog(r)) >= 3 /\ SizeOf(r) > 4

\* C20: for a slice of at most 4 bytes, the empty one included, the call
\* issues one invalidation, at the start address rounded down to a multiple
\* of 4, queries no line size, sweeps nothing and returns; a slice of 5 bytes
\* or more never takes this path.
C20_FastPath ==
    /\ (slice[2] <= 4 /\ pc # "entry") =>
          /\ pc = "done"
          /\ Len(issued) = 1
          /\ issued[1].addr = Floor(start_addr, 4)
          /\ issued[1].round = 0
          /\ nq = 0 /\ round = 0
    /\ (slice[2] >= 5 /\ pc # "entry") =>
          /\ nq >= 1
          /\ \A i \in 1..Len(issued) : issued[i].round >= 1
          /\ pc = "done" => round >= 1

\* C20 witness: the fast path ran for an empty slice at an unaligned address
C20_Witness ==
    /\ Returned_ic /\ slice[2] = 0 /\ start_addr % 4 # 0 /\ start_addr > 4
    /\ Len(issued) = 1

\* the barrier instructions executed so far, each with the number of line
\* invalidations issued before it
RECURSIVE BarriersOf(_)
BarriersOf(calls) ==
    IF calls = <<>> THEN <<>>
    ELSE LET c == Head(calls)
         IN  [i \in 1..Len(c.insns) |-> [insn |-> c.insns[i], after |-> c.after]]
             \o BarriersOf(Tail(calls))
Barriers == BarriersOf(pipe)

\* pipeline-synchronized: the build is coherent, or a data barrier that follows
\* every line invalidation issued has been followed by an instruction barrier
Synced ==
    \/ arch # "aarch64"
    \/ \E i, j \in 1..Len(Barriers) :
          /\ i < j
          /\ Barriers[i].insn = "dsb ish" /\ Barriers[i].after = Len(issued)
          /\ Barriers[j].insn = "isb sy"

\* what a caller can observe: regions with their modes and contents, the set
\* of invalidated addresses, the pipeline-synchronized status
Observable == <<vals, maps, {issued[i].addr : i \in 1..Len(issued)}, Synced>>

\* C15: every successful make_exec of a backed buffer (the transition that
\* runs the invalidation batch and hands the region out as executable) has
\* executed, after the batch, exactly one data barrier then one instruction
\* barrier.
C15_OnePipelineCallPerBatch ==
    (last.op = "make_exec" /\ last.out = "ok" /\ Returned.buffer # None) =>
        last.bar = <<"dsb ish", "isb sy">>

\* C16: a call of invalidate_pipeline that directly follows another call of
\* invalidate_pipeline leaves regions, modes, invalidated lines and the
\* pipeline-synchronized status as the first call left them, in both builds.
C16_PipelineIdempotent ==
    [][(/\ Len(pipe') = Len(pipe) + 1
        /\ Len(pipe) > 0
        /\ pipe[Len(pipe)].at = pc) => Observable' = Observable]_vars

C16_Witness ==
    /\ arch = "aarch64" /\ pc = "done" /\ Len(issued) >= 2
    /\ Len(pipe) = 2 /\ pipe[1].at = "done" /\ pipe[2].at = "done"
    /\ Synced

====
